---- MODULE Spec2Model ----
(***************************************************************************)
(* The RAG service of DocumentProcessingSystem (rag-service/app): the      *)
(* ChromaDB collection behind VectorStoreService, the orchestration of     *)
(* RagService (index_document, query, delete_document) and the request     *)
(* validation and error handling of the router.                            *)
(*                                                                         *)
(* Spec      one worker: the router's handlers are `async def` without an  *)
(*           await, so one event loop runs each request to completion      *)
(*           before it takes the next one.                                 *)
(* ConcSpec  two callers of RagService (two worker processes or threads    *)
(*           over the same persistent collection), one request each, whose *)
(*           remote calls interleave.                                      *)
(*                                                                         *)
(* Texts are modelled by their extent: a document's content is a name and  *)
(* a length in characters, a chunk is a range [lo, hi] of its content.     *)
(* Distances and relevance scores are in units of 1/10000.                 *)
(*                                                                         *)
(* ScoreSpec applies the relevance formula of RagService.query to every    *)
(*           cosine distance of a grid over [0, 2].                        *)
(* SplitSpec applies the text splitter of EmbeddingService.split_text to   *)
(*           every text of a few words of given lengths.                   *)
(***************************************************************************)
EXTENDS Integers, Sequences, FiniteSets, TLC

VARIABLES
    collection,  \* VectorStoreService._collection: the set of stored entries
    pc,          \* per worker: "start" before init_router, "idle" between
                 \* requests, else the remote call its request issues next
    req,         \* per worker: the request in progress and its local variables
    resp,        \* per worker: the response to its last completed request
    deleted,     \* history: the ids whose delete_document has returned and
                 \* for which index_document has not been called since
    lastDeleted  \* history: for the delete request in progress or
                 \* completed last, the id whose delete_document returned
                 \* successfully as the request just before it, if any

vars == <<collection, pc, req, resp, deleted, lastDeleted>>

----------------------------------------------------------------------------
(* Values *)

Workers == {"w1", "w2"}

\* Spec serves every request on this worker.
MainWorker == "w1"

DocumentIds == {"A", "B"}

\* Optional values (Python's `X | None`).
None == <<>>
Some(v) == <<v>>

EmptyDict == [k \in {} |-> TRUE]

\* Python's {**a, **b}: the keys of b win.
DictMerge(a, b) ==
    [k \in (DOMAIN a) \cup (DOMAIN b) |-> IF k \in DOMAIN b THEN b[k] ELSE a[k]]

\* Python's `m or {}` for an optional dict.
OrEmpty(m) == IF m = None THEN EmptyDict ELSE m[1]

\* The number of chunks of the longest content.
MaxChunks == 2

\* Document contents: name, length in characters, and whether every
\* character is whitespace.
EmptyContent == [name |-> "empty", len |-> 0, blank |-> TRUE]
BlankContent == [name |-> "ws", len |-> 2, blank |-> TRUE]
ShortContent == [name |-> "s1", len |-> 11, blank |-> FALSE]
LongContent == [name |-> "l1", len |-> 50 + MaxChunks * 450, blank |-> FALSE]
OldContent == [name |-> "old", len |-> 700, blank |-> FALSE]

Contents == {EmptyContent, BlankContent, ShortContent, LongContent}

Filenames == {"f.pdf"}

\* IndexRequest.metadata as a caller can send it.
RequestMetadatas ==
    {None, Some([document_id |-> "B"]), Some([chunk_index |-> 7])}

\* Questions: name and length in characters.
EmptyQuestion == [name |-> "none", len |-> 0]
Questions == {EmptyQuestion, [name |-> "q", len |-> 5]}

\* QueryRequest.document_ids as a caller can send it.
DocumentIdLists == {None, Some(<<>>), Some(<<"A">>), Some(<<"A", "B">>)}

TopKs == {0, 1, 3, 10, 11}

----------------------------------------------------------------------------
(* EmbeddingService *)

ChunkSize == 500
ChunkOverlap == 50

Min(a, b) == IF a <= b THEN a ELSE b

\* RecursiveCharacterTextSplitter on a text without separators: windows of
\* ChunkSize characters, each starting ChunkOverlap before the end of the
\* previous one; whitespace-only text gives no chunk.
split_text(text) ==
    LET step == ChunkSize - ChunkOverlap
        n == IF text.len <= ChunkSize
             THEN 1
             ELSE (text.len - ChunkOverlap + step - 1) \div step
    IN  IF text.blank \/ text.len = 0
        THEN <<>>
        ELSE [k \in 1..n |->
                [src |-> text.name,
                 lo |-> (k - 1) * step + 1,
                 hi |-> Min(text.len, (k - 1) * step + ChunkSize)]]

\* The embedding model: a deterministic function of the text. A vector is
\* modelled by its direction, an integer.
generate_embedding(text) ==
    CASE text.src = "q" -> 1
      [] text.src = "s1" -> 1
      [] text.src = "l1" -> 2 + (text.lo \div (ChunkSize - ChunkOverlap))
      [] OTHER -> 0

\* Mutant: each new embedding is put in front of the list.
EmbeddingsAppend_Front(embeddings, embedding) == <<embedding>> \o embeddings

\* generate_embeddings: embeddings.append(embedding)
EmbeddingsAppend(embeddings, embedding) == Append(embeddings, embedding)

\* The models Ollama lists when it is reachable.
ModelNames == <<"nomic-embed-text", "llama3.2:1b">>

\* A call that either returns a value or raises.
Returned(value) == [raised |-> FALSE, value |-> value]
Raised == [raised |-> TRUE, value |-> None]

\* Mutant: the probe has no try/except.
embedding_check_connection_NoCatch(list_ok) ==
    IF list_ok THEN Returned(<<TRUE, ModelNames>>) ELSE Raised

\* EmbeddingService.check_connection: (True, model names) when
\* self._client.list() answers, (False, []) when it raises.
embedding_check_connection(list_ok) ==
    IF list_ok THEN Returned(<<TRUE, ModelNames>>) ELSE Returned(<<FALSE, <<>>>>)

\* Cosine distance of two directions, in 1/10000: 0 identical, 20000 opposite.
CosineDistance(u, v) == Min(20000, (IF u <= v THEN v - u ELSE u - v) * 4000)

----------------------------------------------------------------------------
(* VectorStoreService *)

\* f"{document_id}_chunk_{i}"
ChunkId(document_id, i) == document_id \o "_chunk_" \o ToString(i)

\* add_chunks: the metadata of chunk i; the caller's keys are spread last.
ChunkMetadata(document_id, i, metadata) ==
    DictMerge([document_id |-> document_id, chunk_index |-> i], metadata)

\* add_chunks: the entries handed to collection.add (chunk_index is 0-based).
NewEntries(document_id, chunks, embeddings, metadata) ==
    {[id |-> ChunkId(document_id, i - 1),
      embedding |-> embeddings[i],
      document |-> chunks[i],
      metadata |-> ChunkMetadata(document_id, i - 1, metadata)] :
        i \in 1..Len(chunks)}

Ids(entries) == {e.id : e \in entries}

\* collection.add when some id is already stored: the installed ChromaDB
\* either skips those ids without an error, or raises DuplicateIDError and
\* stores nothing.
DuplicatePolicies == {"ignore", "raise"}

\* Mutant: the entries are looked up by the prefix of their id.
ExistingIds_ByPrefix(entries, document_id) ==
    {e.id : e \in {x \in entries :
                     \E i \in 0..MaxChunks : x.id = ChunkId(document_id, i)}}

\* Mutant: the where clause matches nothing.
ExistingIds_None(entries, document_id) == {}

\* collection.get(where={"document_id": document_id})["ids"]
ExistingIds(entries, document_id) ==
    {e.id : e \in {x \in entries : x.metadata["document_id"] = document_id}}

\* Mutant: the delete removes nothing.
DeleteIds_KeepAll(entries, ids) == entries

\* collection.delete(ids=...)
DeleteIds(entries, ids) == {e \in entries : e.id \notin ids}

\* Mutant: the entries are written with upsert, an entry whose id is
\* already stored is overwritten.
CollectionAdd_Upsert(entries, new) ==
    {e \in entries : e.id \notin Ids(new)} \cup new

\* collection.add(ids, embeddings, documents, metadatas): the entries whose
\* id is not stored yet are written, a stored entry is left as it is.
CollectionAdd(entries, new) ==
    entries \cup {e \in new : e.id \notin Ids(entries)}

\* Mutant: reading the collection empties it.
CollectionRead_Consumes(entries) == {}

\* The collection after collection.query, collection.get or
\* collection.count.
CollectionRead(entries) == entries

\* Mutant: no where filter is built.
WhereFilter_Unfiltered(document_ids) == None

\* Mutant: the filter is built whenever document_ids is given, an empty
\* list included.
WhereFilter_WhenGiven(document_ids) ==
    IF document_ids = None
    THEN None
    ELSE Some([op |-> "$in", ids |-> document_ids[1]])

\* query: the where filter built from document_ids (None: no filter):
\* {"document_id": id} for a one-element list, {"document_id": {"$in": ids}}
\* for a longer one.
WhereFilter(document_ids) ==
    IF document_ids = None \/ document_ids = Some(<<>>)
    THEN None
    ELSE IF Len(document_ids[1]) = 1
         THEN Some([op |-> "$eq", ids |-> <<document_ids[1][1]>>])
         ELSE Some([op |-> "$in", ids |-> document_ids[1]])

\* The entries a where filter on the metadata field document_id selects.
Matching(entries, where) ==
    IF where = None
    THEN entries
    ELSE IF where[1].op = "$eq"
         THEN {e \in entries : e.metadata["document_id"] = where[1].ids[1]}
         ELSE {e \in entries :
                 \E i \in 1..Len(where[1].ids) :
                     e.metadata["document_id"] = where[1].ids[i]}

\* Mutant: n_results is not passed on, every match is returned.
ResultCount_All(top_k, matches) == matches

\* collection.query(n_results=top_k, where=...): the possible results, each
\* a list of the nearest min(top_k, matches) entries with their distances,
\* nearest first; entries at the same distance come in any order.
ResultCount(top_k, matches) == Min(top_k, matches)

RECURSIVE Nearest(_, _, _)
Nearest(entries, query_embedding, n) ==
    LET D(e) == CosineDistance(query_embedding, e.embedding)
        first == {x \in entries : \A y \in entries : D(x) <= D(y)}
    IN  IF n = 0 \/ entries = {}
        THEN {<<>>}
        ELSE UNION {{<<x>> \o r :
                        r \in Nearest(entries \ {x}, query_embedding, n - 1)} :
                    x \in first}

NearestLists(entries, query_embedding, top_k) ==
    Nearest(entries, query_embedding, ResultCount(top_k, Cardinality(entries)))

VectorQuery(entries, query_embedding, top_k, document_ids) ==
    {[i \in 1..Len(r) |->
        [id |-> r[i].id,
         document |-> r[i].document,
         metadata |-> r[i].metadata,
         distance |-> CosineDistance(query_embedding, r[i].embedding)]] :
        r \in NearestLists(Matching(entries, WhereFilter(document_ids)),
                           query_embedding, top_k)}

\* get_document_ids: sorted(set of metadata document_id).
DocRank(d) == IF d = "A" THEN 1 ELSE 2

RECURSIVE SortedIds(_)
SortedIds(S) ==
    IF S = {}
    THEN <<>>
    ELSE LET m == CHOOSE x \in S : \A y \in S : DocRank(x) <= DocRank(y)
         IN  <<m>> \o SortedIds(S \ {m})

get_document_ids(entries) ==
    SortedIds({e.metadata["document_id"] : e \in entries})

\* Mutant: the probe has no try/except.
vector_check_connection_NoCatch(count_ok) ==
    IF count_ok THEN Returned(TRUE) ELSE Raised

\* VectorStoreService.check_connection: True when self._collection.count()
\* answers, False when it raises.
vector_check_connection(count_ok) ==
    IF count_ok THEN Returned(TRUE) ELSE Returned(FALSE)

----------------------------------------------------------------------------
(* models.py: request validation, done before the handler runs *)

TopKMin == 1
TopKMax == 10

\* IndexRequest: content has min_length=1.
ValidIndexRequest(content) == content.len >= 1

\* Mutant: top_k declared with ge=0.
ValidQueryRequest_ZeroTopK(question, top_k) ==
    question.len >= 1 /\ top_k >= 0 /\ top_k <= 10

\* QueryRequest: question has min_length=1, top_k has ge=1 and le=10.
ValidQueryRequest(question, top_k) ==
    question.len >= 1 /\ top_k >= TopKMin /\ top_k <= TopKMax

----------------------------------------------------------------------------
(* The handlers' error responses *)

\* The texts the exceptions of the remote calls carry (str(e)); which text
\* an exception has is up to the dependency, whatever call it fails.
Messages == {"connection refused", "timed out"}

\* ChromaDB's DuplicateIDError.
DuplicateMessage == "duplicate id"

\* The detail of the 503 raised while the service references are unset.
NotInitializedDetail(op) ==
    IF op = "list"
    THEN <<"Service not initialized">>
    ELSE <<"RAG service not initialized">>

\* f"Indexing failed: {e}", f"Query failed: {e}", f"Delete failed: {e}",
\* f"Failed to list documents: {e}"
FailurePrefix(op) ==
    CASE op = "index" -> "Indexing failed"
      [] op = "query" -> "Query failed"
      [] op = "delete" -> "Delete failed"
      [] op = "list" -> "Failed to list documents"

\* except Exception as e: raise HTTPException(status_code=500, detail=...)
HandlerFailure(op, message) ==
    [status |-> "error", detail |-> Some(<<FailurePrefix(op), message>>)]

\* The response of a handler in which a remote call raised with `message`.
Failed(response, message) ==
    LET failure == HandlerFailure(response.op, message)
    IN  [response EXCEPT !.status = failure.status, !.detail = failure.detail]

\* Mutant: the handler does not look at the service reference and answers
\* with an empty success.
NotInitialized_Ok(response) == [response EXCEPT !.status = "ok"]

\* The response to a request received before init_router.
NotInitialized(response) ==
    [response EXCEPT !.status = "unavailable",
                     !.detail = Some(NotInitializedDetail(response.op))]

\* The HTTP status code of a response.
StatusCode(response) ==
    CASE response.status = "ok" -> 200
      [] response.status = "rejected" -> 422
      [] response.status = "unavailable" -> 503
      [] response.status = "error" -> 500

\* Mutant: a call is wrapped in a retry, it is issued a second time.
Issue_Twice(calls, call) == calls \o <<call, call>>

\* The remote calls of one execution, in the order they were issued, after
\* `call` has been issued.
Issue(calls, call) == Append(calls, call)

----------------------------------------------------------------------------
(* RagService.query *)

NoDocumentsAnswer == "No relevant documents found"
GeneratedAnswer == "generated"

\* Mutant: the distance is not halved.
Relevance_Unhalved(distance) == 10000 - distance

\* relevance = 1.0 - (distance / 2.0), rounded to 4 decimals.
Relevance(distance) == 10000 - (distance \div 2)

QuestionText(question) == [src |-> question.name, lo |-> 1, hi |-> question.len]

\* `if results["ids"] and results["ids"][0]`
HasResults(results) == results # <<>>

\* Mutant: the early return on an empty context is missing.
NoContext_Never(context_parts) == FALSE

\* `if not context_parts`
NoContext(context_parts) == context_parts = <<>>

\* Mutant: the answer is generated before the index is searched.
QuerySteps_ChatFirst == <<"embed", "chat", "search">>

\* The remote steps of query, in the order of its statements.
QuerySteps == <<"embed", "search", "chat">>

\* The remote calls query has issued when its k-th step has been called.
QueryCalls(k) ==
    LET first == Issue(<<>>, QuerySteps[1])
        second == Issue(first, QuerySteps[2])
        third == Issue(second, QuerySteps[3])
    IN  CASE k = 1 -> first [] k = 2 -> second [] k = 3 -> third

\* The separator of the context's chunks, "\n\n---\n\n", as a text.
Delimiter == [src |-> "---", lo |-> 1, hi |-> 7]

\* Mutant: the chunk texts are concatenated without the delimiter.
Join_NoDelimiter(delimiter, parts) == parts

\* delimiter.join(parts), as the sequence of its pieces.
Join(delimiter, parts) ==
    [i \in 1..(2 * Len(parts) - 1) |->
        IF i % 2 = 1 THEN parts[(i + 1) \div 2] ELSE delimiter]

\* Mutant: only the nearest result's document is recorded.
SearchedDocIds_First(used) ==
    IF used = <<>> THEN {} ELSE {used[1].metadata["document_id"]}

\* searched_doc_ids: the document_id of every result the loop went through.
SearchedDocIds(used) == {used[i].metadata["document_id"] : i \in 1..Len(used)}

\* list(searched_doc_ids): the set's elements in any order.
ListsOf(S) ==
    {l \in [1..Cardinality(S) -> S] :
        \A i, j \in 1..Cardinality(S) : i # j => l[i] # l[j]}

QueryResponse(request, status, failed, calls, results, answer, sources, searched, context) ==
    [op |-> "query", question |-> request.question,
     document_ids |-> request.document_ids, top_k |-> request.top_k,
     status |-> status, failed |-> failed, calls |-> calls,
     results |-> results, answer |-> answer, sources |-> sources,
     document_ids_searched |-> searched, context |-> context,
     detail |-> None]

\* The responses one execution of query can end with: the embedding call,
\* the vector search or the chat call may raise (the router turns the
\* exception into a 500); otherwise the answer with its sources.
query(entries, question, document_ids, top_k) ==
    LET Resp(status, failed, calls, results, answer, sources, searched, context) ==
            QueryResponse([question |-> question, document_ids |-> document_ids,
                           top_k |-> top_k],
                          status, failed, calls, results, answer, sources,
                          searched, context)
        query_embedding == generate_embedding(QuestionText(question))
        After(results) ==
            LET used == IF HasResults(results) THEN results ELSE <<>>
                sources == [i \in 1..Len(used) |->
                              [document_id |-> used[i].metadata["document_id"],
                               chunk_text |-> used[i].document,
                               relevance_score |-> Relevance(used[i].distance),
                               metadata |-> used[i].metadata]]
                context_parts == [i \in 1..Len(used) |-> used[i].document]
                searched_doc_ids == SearchedDocIds(used)
                context == Join(Delimiter, context_parts)
            IN  IF NoContext(context_parts)
                THEN {Resp("ok", "none", QueryCalls(2), results,
                           NoDocumentsAnswer, <<>>, l, <<>>) :
                        l \in ListsOf(searched_doc_ids)}
                ELSE {Resp("ok", "none", QueryCalls(3), results,
                           GeneratedAnswer, sources, l, context) :
                        l \in ListsOf(searched_doc_ids)}
                     \cup
                     {Failed(Resp("error", "chat", QueryCalls(3),
                                  results, "", <<>>, <<>>, <<>>), m) :
                        m \in Messages}
    IN  {Failed(Resp("error", "embed", QueryCalls(1), <<>>, "", <<>>, <<>>, <<>>),
                m) : m \in Messages}
        \cup
        {Failed(Resp("error", "search", QueryCalls(2), <<>>, "", <<>>,
                     <<>>, <<>>), m) : m \in Messages}
        \cup
        UNION {After(results) :
                 results \in VectorQuery(entries, query_embedding, top_k,
                                         document_ids)}

----------------------------------------------------------------------------
(* health_check *)

HealthResponse(env, status, ollama_connected, chromadb_connected, models_available) ==
    [op |-> "health", initialised |-> env.initialised,
     list_ok |-> env.list_ok, count_ok |-> env.count_ok,
     status |-> status, ollama_connected |-> ollama_connected,
     chromadb_connected |-> chromadb_connected,
     models_available |-> models_available]

\* Mutant: one reachable dependency is enough.
HealthStatus_Either(ollama_ok, chroma_ok) ==
    IF ollama_ok \/ chroma_ok THEN "healthy" ELSE "degraded"

\* status = "healthy" if (ollama_ok and chroma_ok) else "degraded"
HealthStatus(ollama_ok, chroma_ok) ==
    IF ollama_ok /\ chroma_ok THEN "healthy" ELSE "degraded"

\* GET /health. initialised: init_router has set the service references;
\* list_ok, count_ok: whether Ollama's model listing and the collection's
\* count would answer. An exception leaving a probe would leave the handler
\* (status "error").
health_check(initialised, list_ok, count_ok) ==
    LET env == [initialised |-> initialised, list_ok |-> list_ok,
                count_ok |-> count_ok]
        ollama == embedding_check_connection(list_ok)
        chroma == vector_check_connection(count_ok)
    IN  IF ~initialised
        THEN HealthResponse(env, "unhealthy", FALSE, FALSE, <<>>)
        ELSE IF ollama.raised \/ chroma.raised
        THEN HealthResponse(env, "error", FALSE, FALSE, <<>>)
        ELSE HealthResponse(env, HealthStatus(ollama.value[1], chroma.value),
                            ollama.value[1], chroma.value, ollama.value[2])

----------------------------------------------------------------------------
(* Requests *)

IdleReq == [op |-> "none"]
NoResp == [op |-> "none"]

IndexResponse(r, status, failed, calls, chunks_indexed) ==
    [op |-> "index", document_id |-> r.document_id, content |-> r.content,
     metadata |-> r.metadata, status |-> status, failed |-> failed,
     calls |-> calls, chunks_indexed |-> chunks_indexed, detail |-> None]

DeleteResponse(r, status, failed, calls, chunks_deleted) ==
    [op |-> "delete", document_id |-> r.document_id, status |-> status,
     failed |-> failed, calls |-> calls, chunks_deleted |-> chunks_deleted,
     detail |-> None]

Return(p, response) ==
    /\ pc' = [pc EXCEPT ![p] = "idle"]
    /\ req' = [req EXCEPT ![p] = IdleReq]
    /\ resp' = [resp EXCEPT ![p] = response]
    /\ UNCHANGED lastDeleted

Goto(p, label, r) ==
    /\ pc' = [pc EXCEPT ![p] = label]
    /\ req' = [req EXCEPT ![p] = r]
    /\ UNCHANGED <<resp, lastDeleted>>

\* A worker takes a request: the previous response has been sent.
Begin(p, label, r) ==
    /\ pc' = [pc EXCEPT ![p] = label]
    /\ req' = [req EXCEPT ![p] = r]
    /\ resp' = [resp EXCEPT ![p] = NoResp]
    /\ lastDeleted' = IF /\ r.op = "delete"
                         /\ resp[p].op = "delete"
                         /\ resp[p].status = "ok"
                      THEN Some(resp[p].document_id)
                      ELSE None

\* A request answered within the handler's first step.
Respond(p, response) ==
    /\ resp' = [resp EXCEPT ![p] = response]
    /\ lastDeleted' = None
    /\ UNCHANGED <<pc, req>>

\* init_router: the application's startup sets the service references.
InitRouter(p) ==
    /\ pc[p] = "start"
    /\ pc' = [pc EXCEPT ![p] = "idle"]
    /\ UNCHANGED <<collection, req, resp, deleted, lastDeleted>>

\* POST /index: the handler passes {"filename": filename, **(metadata or {})}
\* to RagService.index_document, which starts with delete_document.
ReceiveIndex(p, document_id, content, filename, metadata) ==
    /\ pc[p] \in {"start", "idle"}
    /\ UNCHANGED collection
    /\ LET r == [op |-> "index", document_id |-> document_id,
                 content |-> content,
                 metadata |-> DictMerge([filename |-> filename], OrEmpty(metadata)),
                 existing |-> {}, chunks |-> <<>>, embeddings |-> <<>>,
                 calls |-> <<>>]
       IN  IF ~ValidIndexRequest(content)
           THEN /\ UNCHANGED deleted
                /\ Respond(p, IndexResponse(r, "rejected", "none", <<>>, 0))
           ELSE IF pc[p] = "start"
           THEN /\ UNCHANGED deleted
                /\ Respond(p, NotInitialized(
                                  IndexResponse(r, "unavailable", "none", <<>>, 0)))
           ELSE /\ deleted' = deleted \ {document_id}
                /\ Begin(p, "get", r)

\* POST /delete: RagService.delete_document delegates to the vector store.
ReceiveDelete(p, document_id) ==
    /\ pc[p] \in {"start", "idle"}
    /\ UNCHANGED <<collection, deleted>>
    /\ LET r == [op |-> "delete", document_id |-> document_id,
                 existing |-> {}, calls |-> <<>>]
       IN  IF pc[p] = "start"
           THEN Respond(p, NotInitialized(
                              DeleteResponse(r, "unavailable", "none", <<>>, 0)))
           ELSE Begin(p, "get", r)

\* What follows VectorStoreService.delete_document: the delete request
\* returns the count; index_document splits the content and returns 0 when
\* there is no chunk.
AfterDelete(p, r) ==
    IF r.op = "delete"
    THEN /\ deleted' = deleted \cup {r.document_id}
         /\ Return(p, DeleteResponse(r, "ok", "none", r.calls,
                                     Cardinality(r.existing)))
    ELSE /\ UNCHANGED deleted
         /\ LET chunks == split_text(r.content)
            IN  IF chunks = <<>>
                THEN Return(p, IndexResponse(r, "ok", "none", r.calls, 0))
                ELSE Goto(p, "embed", [r EXCEPT !.chunks = chunks])

\* delete_document: existing = collection.get(where=...)
GetExisting(p) ==
    /\ pc[p] = "get"
    /\ UNCHANGED collection
    /\ LET r == [req[p] EXCEPT
                    !.existing = ExistingIds(collection, req[p].document_id),
                    !.calls = Issue(@, "get")]
       IN  IF Cardinality(r.existing) > 0
           THEN Goto(p, "delete", r) /\ UNCHANGED deleted
           ELSE AfterDelete(p, r)

\* delete_document: collection.delete(ids=existing["ids"])
DeleteExisting(p) ==
    /\ pc[p] = "delete"
    /\ collection' = DeleteIds(collection, req[p].existing)
    /\ AfterDelete(p, [req[p] EXCEPT !.calls = Issue(@, "delete")])

\* generate_embeddings: one generate_embedding call per chunk, in order.
EmbedChunk(p) ==
    /\ pc[p] = "embed"
    /\ UNCHANGED <<collection, deleted>>
    /\ LET i == Len(req[p].embeddings) + 1
           r == [req[p] EXCEPT
                    !.embeddings =
                        EmbeddingsAppend(@, generate_embedding(req[p].chunks[i])),
                    !.calls = Issue(@, "embed")]
       IN  Goto(p, IF i = Len(r.chunks) THEN "add" ELSE "embed", r)

\* add_chunks: collection.add(ids, embeddings, documents, metadatas)
AddChunks(p, policy) ==
    /\ pc[p] = "add"
    /\ UNCHANGED deleted
    /\ LET r == [req[p] EXCEPT !.calls = Issue(@, "add")]
           new == NewEntries(r.document_id, r.chunks, r.embeddings, r.metadata)
           duplicate == Ids(new) \cap Ids(collection) # {}
       IN  IF duplicate /\ policy = "raise"
           THEN /\ UNCHANGED collection
                /\ Return(p, Failed(IndexResponse(r, "error", "add", r.calls, 0),
                                    DuplicateMessage))
           ELSE /\ collection' = CollectionAdd(collection, new)
                /\ Return(p, IndexResponse(r, "ok", "none", r.calls, Len(r.chunks)))

\* A remote call (ChromaDB, Ollama) raises: the exception propagates to the
\* handler, which answers 500; the call has had no effect.
RemoteCallFails(p, message) ==
    /\ pc[p] \in {"get", "delete", "embed", "add"}
    /\ UNCHANGED <<collection, deleted>>
    /\ LET calls == Issue(req[p].calls, pc[p])
       IN  IF req[p].op = "delete"
           THEN Return(p, Failed(DeleteResponse(req[p], "error", pc[p], calls, 0),
                                 message))
           ELSE Return(p, Failed(IndexResponse(req[p], "error", pc[p], calls, 0),
                                 message))

\* POST /query
Query(p, question, document_ids, top_k) ==
    /\ pc[p] \in {"start", "idle"}
    /\ collection' = IF pc[p] = "idle" /\ ValidQueryRequest(question, top_k)
                      THEN CollectionRead(collection)
                      ELSE collection
    /\ UNCHANGED deleted
    /\ LET r == [question |-> question, document_ids |-> document_ids,
                 top_k |-> top_k]
       IN  IF ~ValidQueryRequest(question, top_k)
           THEN Respond(p, QueryResponse(r, "rejected", "none", <<>>, <<>>, "",
                                         <<>>, <<>>, <<>>))
           ELSE IF pc[p] = "start"
           THEN Respond(p, NotInitialized(
                              QueryResponse(r, "unavailable", "none", <<>>, <<>>,
                                            "", <<>>, <<>>, <<>>)))
           ELSE \E response \in query(collection, question, document_ids, top_k) :
                    Respond(p, response)

ListResponse(status, failed, document_ids) ==
    [op |-> "list", status |-> status, failed |-> failed,
     document_ids |-> document_ids, detail |-> None]

\* GET /documents
ListDocuments(p) ==
    /\ pc[p] \in {"start", "idle"}
    /\ collection' = IF pc[p] = "idle"
                      THEN CollectionRead(collection)
                      ELSE collection
    /\ UNCHANGED deleted
    /\ IF pc[p] = "start"
       THEN Respond(p, NotInitialized(ListResponse("unavailable", "none", <<>>)))
       ELSE \/ Respond(p, ListResponse("ok", "none",
                                       get_document_ids(collection)))
            \/ \E m \in Messages :
                  Respond(p, Failed(ListResponse("error", "get", <<>>), m))

\* GET /health
Health(p, list_ok, count_ok) ==
    /\ pc[p] \in {"start", "idle"}
    /\ collection' = IF pc[p] = "idle"
                      THEN CollectionRead(collection)
                      ELSE collection
    /\ UNCHANGED deleted
    /\ Respond(p, health_check(pc[p] = "idle", list_ok, count_ok))

----------------------------------------------------------------------------
(* Specifications *)

Init ==
    /\ collection = {}
    /\ pc = [p \in Workers |-> "start"]
    /\ req = [p \in Workers |-> IdleReq]
    /\ resp = [p \in Workers |-> NoResp]
    /\ deleted = {}
    /\ lastDeleted = None

Step(p) ==
    \/ GetExisting(p)
    \/ DeleteExisting(p)
    \/ EmbedChunk(p)
    \/ \E policy \in DuplicatePolicies : AddChunks(p, policy)
    \/ \E m \in Messages : RemoteCallFails(p, m)

Next ==
    \/ \E d \in DocumentIds, c \in Contents, f \in Filenames,
          m \in RequestMetadatas : ReceiveIndex(MainWorker, d, c, f, m)
    \/ \E d \in DocumentIds : ReceiveDelete(MainWorker, d)
    \/ \E q \in Questions, ids \in DocumentIdLists, k \in TopKs :
          Query(MainWorker, q, ids, k)
    \/ ListDocuments(MainWorker)
    \/ \E list_ok, count_ok \in BOOLEAN : Health(MainWorker, list_ok, count_ok)
    \/ InitRouter(MainWorker)
    \/ Step(MainWorker)

Spec == Init /\ [][Next]_vars

\* The entries index_document(document_id, content, metadata) stores when it
\* runs alone.
IndexedEntries(document_id, content, metadata) ==
    LET chunks == split_text(content)
    IN  NewEntries(document_id, chunks,
                   [i \in 1..Len(chunks) |-> generate_embedding(chunks[i])],
                   metadata)

\* ConcSpec: the persisted collection is empty or holds an earlier
\* generation of document A; each worker serves one index request, and the
\* workers' remote calls interleave.
ConcContents == {BlankContent, ShortContent, LongContent}

ConcInit ==
    /\ collection \in {{}, IndexedEntries("A", OldContent, [filename |-> "f.pdf"])}
    /\ pc = [p \in Workers |-> "idle"]
    /\ req = [p \in Workers |-> IdleReq]
    /\ resp = [p \in Workers |-> NoResp]
    /\ deleted = {}
    /\ lastDeleted = None

ConcNext ==
    \E p \in Workers :
        \/ /\ resp[p] = NoResp
           /\ \E d \in DocumentIds, c \in ConcContents, f \in Filenames :
                 ReceiveIndex(p, d, c, f, None)
        \/ Step(p)

ConcSpec == ConcInit /\ [][ConcNext]_vars

\* ScoreSpec: the relevance of a search result at each distance of a grid
\* over the range of the cosine distance, 0 (identical) to 2 (opposite).
MaxDistance == 20000

\* The number of intervals of the grid.
DistanceSamples == 400

Distances ==
    {(k * MaxDistance) \div DistanceSamples : k \in 0..DistanceSamples}
        \cup {1, 3, MaxDistance - 1}

\* query: the relevance_score of the source built for a result.
Score(p, distance) ==
    /\ pc[p] = "idle"
    /\ UNCHANGED <<collection, deleted>>
    /\ Respond(p, [op |-> "score", distance |-> distance,
                   relevance_score |-> Relevance(distance)])

ScoreInit ==
    /\ collection = {}
    /\ pc = [p \in Workers |-> "idle"]
    /\ req = [p \in Workers |-> IdleReq]
    /\ resp = [p \in Workers |-> NoResp]
    /\ deleted = {}
    /\ lastDeleted = None

ScoreNext == \E d \in Distances : Score(MainWorker, d)

ScoreSpec == ScoreInit /\ [][ScoreNext]_vars

\* SplitSpec: split_text applied to texts of words separated by single
\* spaces, each word shorter than the chunk size: " " is the first of the
\* splitter's separators such a text contains. A text is the sequence of
\* its words' lengths.
MaxWords == 4

WordLengths == {20, 150, 300}

Texts == UNION {[1..n -> WordLengths] : n \in 0..MaxWords}

\* The lengths of the pieces the text is split into at the separator: the
\* splitter keeps the separator, at the start of the piece that follows it.
Pieces(words) ==
    [i \in 1..Len(words) |-> IF i = 1 THEN words[i] ELSE words[i] + 1]

\* The pieces carried over into the next chunk when a chunk has been
\* emitted in front of a piece of length len: pieces are dropped from the
\* front while they are longer than chunk_overlap, or too long for the
\* next piece to fit in.
RECURSIVE Carry(_, _, _, _)
Carry(splits, first, total, len) ==
    IF total > ChunkOverlap \/ (total + len > ChunkSize /\ total > 0)
    THEN Carry(splits, first + 1, total - splits[first], len)
    ELSE [first |-> first, total |-> total]

\* The splitter's merge of the pieces from the d-th on, the pieces
\* first..d-1 (of length total) being the chunk under way: the chunks, each
\* the range lo..hi of its pieces.
RECURSIVE merge_splits(_, _, _, _, _)
merge_splits(splits, d, first, total, docs) ==
    IF d > Len(splits)
    THEN IF first < d THEN Append(docs, [lo |-> first, hi |-> d - 1]) ELSE docs
    ELSE IF total + splits[d] > ChunkSize /\ first < d
         THEN LET kept == Carry(splits, first, total, splits[d])
              IN  merge_splits(splits, d + 1, kept.first,
                               kept.total + splits[d],
                               Append(docs, [lo |-> first, hi |-> d - 1]))
         ELSE merge_splits(splits, d + 1, first, total + splits[d], docs)

\* split_text on a text of words: every chunk is stripped of the
\* whitespace at its ends, it is the words lo..hi with the spaces between
\* them.
split_words(words) == merge_splits(Pieces(words), 1, 1, 0, <<>>)

SplitText(p, words) ==
    /\ pc[p] = "idle"
    /\ UNCHANGED <<collection, deleted>>
    /\ Respond(p, [op |-> "split", words |-> words,
                   chunks |-> split_words(words)])

SplitInit ==
    /\ collection = {}
    /\ pc = [p \in Workers |-> "idle"]
    /\ req = [p \in Workers |-> IdleReq]
    /\ resp = [p \in Workers |-> NoResp]
    /\ deleted = {}
    /\ lastDeleted = None

SplitNext == \E words \in Texts : SplitText(MainWorker, words)

SplitSpec == SplitInit /\ [][SplitNext]_vars

----------------------------------------------------------------------------
(* Vocabulary of the properties *)

Range(seq) == {seq[i] : i \in 1..Len(seq)}

\* The entries the store attributes to a document: those whose metadata
\* document_id is d (what delete_document, get_document_ids and the query
\* filter go by).
EntriesOf(entries, d) == {e \in entries : e.metadata["document_id"] = d}

\* The response to the request the main worker completed last.
Last == resp[MainWorker]

\* The entries a document_ids argument selects: all of them when it is
\* absent or empty, else those of the listed documents.
Selected(entries, document_ids) ==
    IF document_ids = None \/ document_ids[1] = <<>>
    THEN entries
    ELSE UNION {EntriesOf(entries, d) : d \in Range(document_ids[1])}

QuestionDistance(question, e) ==
    CosineDistance(generate_embedding(QuestionText(question)), e.embedding)

----------------------------------------------------------------------------
(* Properties *)

\* C1: when index_document(id, content) has returned successfully, the
\* entries of id are exactly the chunks of content, and as many as the
\* call returned, whatever calls came before and whatever the metadata.
C1_ReindexReplaces ==
    (Last.op = "index" /\ Last.status = "ok") =>
        LET own == EntriesOf(collection, Last.document_id)
        IN  /\ Cardinality(own) = Last.chunks_indexed
            /\ {e.document : e \in own} = Range(split_text(Last.content))

\* C2: every stored entry carries the document_id it was indexed under and
\* its own position as chunk_index: its id is the chunk id derived from
\* its metadata, whatever metadata the caller passed.
C2_DerivedMetadataKept ==
    \A e \in collection :
        e.id = ChunkId(e.metadata["document_id"], e.metadata["chunk_index"])

\* C3: from the return of delete_document(id) until index_document(id) is
\* called again, id is not listed and every query restricted to [id] that
\* answers has no source and the fixed no-documents answer.
C3_DeletedStaysAbsent ==
    \A d \in deleted :
        /\ d \notin Range(get_document_ids(collection))
        /\ \A q \in Questions, k \in TopKs :
              ValidQueryRequest(q, k) =>
                \A r \in query(collection, q, Some(<<d>>), k) :
                    r.status = "ok" =>
                        r.sources = <<>> /\ r.answer = NoDocumentsAnswer

\* C4: a query with a non-empty document_ids list returns only sources of
\* listed documents, and document_ids_searched is within the list.
C4_FilterRespected ==
    (/\ Last.op = "query"
     /\ Last.status = "ok"
     /\ Last.document_ids # None
     /\ Last.document_ids[1] # <<>>) =>
        /\ \A i \in 1..Len(Last.sources) :
              Last.sources[i].document_id \in Range(Last.document_ids[1])
        /\ Range(Last.document_ids_searched) \subseteq Range(Last.document_ids[1])

\* C4 witness: a query restricted to [A] returned a source although an
\* entry of another document is strictly nearer to the question.
C4_Witness ==
    /\ Last.op = "query"
    /\ Last.status = "ok"
    /\ Last.document_ids = Some(<<"A">>)
    /\ Len(Last.sources) >= 1
    /\ \E e \in collection :
          /\ e.metadata["document_id"] # "A"
          /\ QuestionDistance(Last.question, e) < Last.results[1].distance

\* C5: a query whose vector search yields no result never calls the
\* language model, and answers with the fixed no-documents answer, no
\* source and no searched id.
C5_NoResultsNoGeneration ==
    (/\ Last.op = "query"
     /\ Last.status # "rejected"
     /\ Last.results = <<>>) =>
        /\ "chat" \notin Range(Last.calls)
        /\ (Last.status = "ok" =>
              /\ Last.answer = NoDocumentsAnswer
              /\ Last.sources = <<>>
              /\ Last.document_ids_searched = <<>>)

\* C5 witness: the index is not empty, but no entry matches the filter.
C5_Witness ==
    /\ Last.op = "query"
    /\ Last.status = "ok"
    /\ collection # {}
    /\ Last.document_ids = Some(<<"A">>)
    /\ Last.results = <<>>
    /\ Last.answer = NoDocumentsAnswer

\* C6: a query that answers returns min(top_k, number of entries the
\* filter selects) sources.
C6_SourceCount ==
    (Last.op = "query" /\ Last.status = "ok") =>
        Len(Last.sources) =
            Min(Last.top_k,
                Cardinality(Selected(collection, Last.document_ids)))

\* C6 witness: fewer entries than top_k match the filter, and all of them
\* are returned although the index holds more.
C6_Witness ==
    /\ Last.op = "query"
    /\ Last.status = "ok"
    /\ Last.document_ids = Some(<<"A">>)
    /\ Len(Last.sources) >= 1
    /\ Len(Last.sources) < Last.top_k
    /\ Len(Last.sources) < Cardinality(collection)

\* C7: a query request with an empty question or a top_k outside 1..10 is
\* rejected with no remote call made and the index unchanged.
C7_InvalidQueryRejected ==
    [][(/\ Last'.op = "query"
        /\ (Last'.question.len = 0 \/ Last'.top_k < 1 \/ Last'.top_k > 10)) =>
            /\ Last'.status = "rejected"
            /\ Last'.calls = <<>>
            /\ collection' = collection]_vars

\* C7 witness: a query with top_k = 11 has been rejected on a non-empty index.
C7_Witness ==
    /\ Last.op = "query"
    /\ Last.status = "rejected"
    /\ Last.question.len > 0
    /\ Last.top_k = 11
    /\ collection # {}

\* C8, as claimed: whichever step of index_document raises, the index then
\* holds no entry of the document.
C8_AnyFailureLeavesNone ==
    (Last.op = "index" /\ Last.status = "error") =>
        EntriesOf(collection, Last.document_id) = {}

\* C8, amended: when the embedding of a chunk or the insert raises (a step
\* after the delete of step 1 has completed), index_document aborts with
\* that error and the index holds no entry of the document; no step of a
\* failing index_document changes the entries of other documents.
C8_FailureAfterDeleteLeavesNone ==
    [][req[MainWorker].op = "index" =>
        LET d == req[MainWorker].document_id
        IN  /\ (/\ Last'.op = "index"
                /\ Last'.status = "error"
                /\ Last'.failed \in {"embed", "add"}) =>
                    EntriesOf(collection', d) = {}
            /\ ~(pc[MainWorker] = "add" /\ Last'.status = "ok") =>
                    collection' \ EntriesOf(collection', d) =
                        collection \ EntriesOf(collection, d)]_vars

\* C8 witness: an index_document that had deleted the previous generation
\* failed while embedding; the document has no entry, another one has.
C8_Witness ==
    /\ Last.op = "index"
    /\ Last.status = "error"
    /\ Last.failed = "embed"
    /\ "delete" \in Range(Last.calls)
    /\ EntriesOf(collection, Last.document_id) = {}
    /\ collection # {}

\* Both workers of ConcSpec have returned successfully from index_document
\* on document d.
BothIndexed(d) ==
    \A p \in Workers :
        /\ pc[p] = "idle"
        /\ resp[p].op = "index"
        /\ resp[p].status = "ok"
        /\ resp[p].document_id = d

ResultOf(p) ==
    IndexedEntries(resp[p].document_id, resp[p].content, resp[p].metadata)

\* C9: two index_document calls on one id are not serialised. When both
\* have returned successfully, every entry of the id is a chunk of one of
\* the two calls and ids are unique, but the entries need not be the chunk
\* set of either call (C9_Witness).
C9_RaceOutcomes ==
    \A d \in DocumentIds :
        BothIndexed(d) =>
            /\ EntriesOf(collection, d) \subseteq
                  UNION {ResultOf(p) : p \in Workers}
            /\ \A e1, e2 \in collection : e1.id = e2.id => e1 = e2

\* C9 witness: both calls returned successfully and the entries of the id
\* are neither what the first call alone nor what the second call alone
\* leaves, so no serial order of the two produces them.
C9_Witness ==
    \E d \in DocumentIds :
        /\ BothIndexed(d)
        /\ \A p \in Workers : EntriesOf(collection, d) # ResultOf(p)

\* C10: no step of an index_document or delete_document for one document
\* adds, removes or changes an entry of another document.
C10_OtherDocumentsUntouched ==
    [][req[MainWorker].op \in {"index", "delete"} =>
        LET d == req[MainWorker].document_id
        IN  collection' \ EntriesOf(collection', d) =
                collection \ EntriesOf(collection, d)]_vars

\* The entries index_document(d, ...) has stored: their ids are derived
\* from the document_id of the call.
StoredFor(entries, d) ==
    {e \in entries : \E i \in 0..MaxChunks : e.id = ChunkId(d, i)}

\* C11: between sequential index_document and delete_document calls, the
\* entries stored for a document all carry its document_id, and the n
\* entries that carry a document_id have the chunk_index values 0..n-1,
\* the one with chunk_index i under the id "{document_id}_chunk_{i}".
C11_ChunkIndexContiguous ==
    pc[MainWorker] = "idle" =>
        \A d \in DocumentIds :
            LET own == EntriesOf(collection, d)
            IN  /\ StoredFor(collection, d) \subseteq own
                /\ {e.metadata["chunk_index"] : e \in own} =
                      0..(Cardinality(own) - 1)
                /\ \A e \in own : e.id = ChunkId(d, e.metadata["chunk_index"])

\* C12: a delete_document(id) that returns has removed exactly the entries
\* whose metadata document_id is id and returns their number before the
\* call - 0, with the index unchanged, when there was none, as when the
\* request just before it was a successful delete_document(id).
C12_DeleteRemovesExactly ==
    [][(/\ req[MainWorker].op = "delete"
        /\ Last'.op = "delete"
        /\ Last'.status = "ok") =>
            LET d == req[MainWorker].document_id
                before == EntriesOf(collection, d)
            IN  /\ collection' = collection \ before
                /\ Last'.chunks_deleted = Cardinality(before)
                /\ lastDeleted = Some(d) =>
                      /\ Last'.chunks_deleted = 0
                      /\ collection' = collection]_vars

\* C12 witness: the second of two consecutive delete_document calls on one
\* id returned 0, with entries of another document in the index.
C12_Witness ==
    /\ Last.op = "delete"
    /\ Last.status = "ok"
    /\ lastDeleted = Some(Last.document_id)
    /\ Last.chunks_deleted = 0
    /\ "delete" \notin Range(Last.calls)
    /\ collection # {}

\* C13: an index_document(id, content) whose content splits into no chunk
\* makes no embedding and no insert call and fails only if the delete of
\* step 1 does; when it returns, it returns 0, no entry stored for id or
\* carrying the document_id id is left, and id is not listed.
C13_NoChunksClearsDocument ==
    (/\ Last.op = "index"
     /\ Last.status \in {"ok", "error"}
     /\ split_text(Last.content) = <<>>) =>
        /\ "embed" \notin Range(Last.calls)
        /\ "add" \notin Range(Last.calls)
        /\ Last.status = "error" => Last.failed \in {"get", "delete"}
        /\ Last.status = "ok" =>
              /\ Last.chunks_indexed = 0
              /\ StoredFor(collection, Last.document_id) = {}
              /\ EntriesOf(collection, Last.document_id) = {}
              /\ Last.document_id \notin Range(get_document_ids(collection))

\* The number of embedding calls among the remote calls made.
EmbedCalls(calls) == Cardinality({i \in 1..Len(calls) : calls[i] = "embed"})

\* C14: generate_embeddings makes one embedding call per text, in input
\* order: the list it builds holds, at position i, the embedding of text i,
\* and is handed on only when it is as long as the input. When the call
\* for a text raises, that error ends the operation: no call is made for
\* the later texts, and the embeddings obtained so far go nowhere.
C14_EmbeddingsInOrderOrNone ==
    [][LET r == req[MainWorker]
           r2 == req'[MainWorker]
       IN  /\ pc'[MainWorker] \in {"embed", "add"} =>
                /\ Len(r2.embeddings) <= Len(r2.chunks)
                /\ \A i \in 1..Len(r2.embeddings) :
                      r2.embeddings[i] = generate_embedding(r2.chunks[i])
                /\ EmbedCalls(r2.calls) = Len(r2.embeddings)
                /\ pc'[MainWorker] = "embed" => Len(r2.embeddings) < Len(r2.chunks)
                /\ pc'[MainWorker] = "add" => Len(r2.embeddings) = Len(r2.chunks)
           /\ (pc[MainWorker] = "embed" /\ Last'.op = "index"
                                        /\ Last'.status = "error") =>
                /\ Last'.failed = "embed"
                /\ EmbedCalls(Last'.calls) = Len(r.embeddings) + 1
                /\ "add" \notin Range(Last'.calls)
                /\ Last'.chunks_indexed = 0
                /\ collection' = collection
                /\ pc'[MainWorker] = "idle"]_vars

\* C14 witness: the embedding of the second of two chunks raised after the
\* first had been obtained; nothing was inserted.
C14_Witness ==
    /\ Last.op = "index"
    /\ Last.status = "error"
    /\ Last.failed = "embed"
    /\ Len(split_text(Last.content)) = 2
    /\ EmbedCalls(Last.calls) = 2
    /\ EntriesOf(collection, Last.document_id) = {}

\* C15: health reports "healthy" exactly when the services are initialised
\* and both probes succeed, "degraded" when they are initialised and a
\* probe fails, "unhealthy" (both flags false, no models) exactly when they
\* are not initialised; once initialised, each flag is its probe's result.
C15_HealthStatus ==
    Last.op = "health" =>
        /\ Last.status = "healthy" <=>
              (Last.initialised /\ Last.list_ok /\ Last.count_ok)
        /\ Last.status = "degraded" <=>
              (Last.initialised /\ ~(Last.list_ok /\ Last.count_ok))
        /\ Last.status = "unhealthy" <=> ~Last.initialised
        /\ ~Last.initialised =>
              /\ ~Last.ollama_connected
              /\ ~Last.chromadb_connected
              /\ Last.models_available = <<>>
        /\ Last.initialised =>
              /\ Last.ollama_connected = Last.list_ok
              /\ Last.chromadb_connected = Last.count_ok

\* C15 witness: Ollama answers, the vector store does not: degraded.
C15_Witness ==
    /\ Last.op = "health"
    /\ Last.initialised
    /\ Last.list_ok
    /\ ~Last.count_ok
    /\ Last.status = "degraded"
    /\ Last.ollama_connected

\* C16: no failure of a probe's remote call leaves the probe: a health
\* request always ends with a HealthResponse, with (False, []) for an
\* unreachable Ollama and False for an inaccessible collection.
C16_ProbesNeverRaise ==
    Last.op = "health" =>
        /\ Last.status \in {"healthy", "degraded", "unhealthy"}
        /\ (Last.initialised /\ ~Last.list_ok) =>
              /\ Last.ollama_connected = FALSE
              /\ Last.models_available = <<>>
        /\ (Last.initialised /\ ~Last.count_ok) =>
              Last.chromadb_connected = FALSE

\* C16 witness: both dependencies are down and the request was answered.
C16_Witness ==
    /\ Last.op = "health"
    /\ Last.initialised
    /\ ~Last.list_ok
    /\ ~Last.count_ok
    /\ Last.status = "degraded"
    /\ Last.models_available = <<>>

\* C17: get_document_ids returns, ascending and without duplicates,
\* exactly the document_ids that have an entry, and so does a list request
\* that answers; an id is listed when index_document for it has returned
\* successfully with at least one chunk, and not listed when
\* delete_document for it has returned.
C17_ListedDocuments ==
    LET listed == get_document_ids(collection)
    IN  /\ Range(listed) = {d \in DocumentIds : EntriesOf(collection, d) # {}}
        /\ \A i, j \in 1..Len(listed) :
              i < j => DocRank(listed[i]) < DocRank(listed[j])
        /\ (Last.op = "list" /\ Last.status = "ok") => Last.document_ids = listed
        /\ (Last.op = "index" /\ Last.status = "ok" /\ Last.chunks_indexed >= 1) =>
              Last.document_id \in Range(listed)
        /\ (Last.op = "delete" /\ Last.status = "ok") =>
              Last.document_id \notin Range(listed)

\* A document_ids argument that does not exclude document d.
Admits(document_ids, d) ==
    document_ids = None \/ document_ids[1] = <<>> \/ d \in Range(document_ids[1])

\* C18: a query that answers right after a successful index_document(id,
\* content) of at least one chunk, and that does not filter id out, has a
\* source whose document_id is id.
C18_IndexThenQuery ==
    [][(/\ Last.op = "index"
        /\ Last.status = "ok"
        /\ Last.chunks_indexed >= 1
        /\ Last'.op = "query"
        /\ Last'.status = "ok"
        /\ Admits(Last'.document_ids, Last.document_id)) =>
            \E i \in 1..Len(Last'.sources) :
                Last'.sources[i].document_id = Last.document_id]_vars

\* C20: the relevance_score of a source is 1 - distance/2 rounded to 4
\* decimals (within half of 1/10000 of the exact value); for a distance in
\* [0, 2] it lies in [0, 1], it is 1 at distance 0 and 0 at distance 2, and
\* no smaller distance has a smaller score.
C20_RelevanceBounds ==
    Last.op = "score" =>
        LET d == Last.distance
            score == Last.relevance_score
            twice == 2 * score - (MaxDistance - d)
        IN  /\ twice \in {-1, 0, 1}
            /\ score >= 0
            /\ score <= 10000
            /\ d = 0 => score = 10000
            /\ d = MaxDistance => score = 0
            /\ \A d2 \in Distances : d2 <= d => Relevance(d2) >= score

\* C20 witness: the score of a result at distance 2 is 0.
C20_Witness ==
    /\ Last.op = "score"
    /\ Last.distance = MaxDistance
    /\ Last.relevance_score = 0

\* What the caller sees of an error response: the status code and the
\* detail.
ErrorReport(response) == <<StatusCode(response), response.detail>>

\* C21: a request in which a remote call failed is answered with a server
\* error whose detail carries the operation's prefix and the exception's
\* text, never with a success; and a query that failed at the embedding or
\* the search (a dependency failure) is reported differently from any way
\* the same query can fail at the generation.
C21_FailuresReportedDistinctly ==
    (Last.op \in {"index", "query", "delete", "list"} /\ Last.failed # "none") =>
        /\ StatusCode(Last) = 500
        /\ Last.detail # None
        /\ Last.detail[1][1] = FailurePrefix(Last.op)
        /\ Last.detail[1][2] \in Messages \cup {DuplicateMessage}
        /\ (Last.op = "query" /\ Last.failed \in {"embed", "search"}) =>
              \A r \in query(collection, Last.question, Last.document_ids,
                             Last.top_k) :
                  r.failed = "chat" => ErrorReport(r) # ErrorReport(Last)

\* The position in the text of the last character of the i-th word (words
\* are one space apart), and of its first.
RECURSIVE WordEnd(_, _)
WordEnd(words, i) ==
    IF i = 0 THEN -1 ELSE WordEnd(words, i - 1) + 1 + words[i]

WordStart(words, i) == WordEnd(words, i - 1) + 2

ChunkLength(words, chunk) ==
    WordEnd(words, chunk.hi) - WordStart(words, chunk.lo) + 1

\* The number of characters of the text two consecutive chunks share.
Overlap(words, chunk, next) ==
    IF next.lo <= chunk.hi
    THEN WordEnd(words, chunk.hi) - WordStart(words, next.lo) + 1
    ELSE 0

\* The chunks cover the text's words in order and without a gap.
CoversInOrder(words, chunks) ==
    /\ chunks # <<>> => chunks[1].lo = 1 /\ chunks[Len(chunks)].hi = Len(words)
    /\ \A k \in 1..Len(chunks) : chunks[k].lo <= chunks[k].hi
    /\ \A k \in 1..(Len(chunks) - 1) :
          /\ chunks[k].lo < chunks[k + 1].lo
          /\ chunks[k].hi < chunks[k + 1].hi
          /\ chunks[k + 1].lo <= chunks[k].hi + 1

\* C22: split_text returns chunks of at most 500 characters, none for an
\* empty text; consecutive chunks share at least 50 characters, and the
\* chunks put together with the overlaps taken once are the whole text.
C22_SplitTextContract ==
    Last.op = "split" =>
        LET words == Last.words
            chunks == Last.chunks
        IN  /\ \A k \in 1..Len(chunks) :
                  ChunkLength(words, chunks[k]) <= ChunkSize
            /\ words = <<>> <=> chunks = <<>>
            /\ CoversInOrder(words, chunks)
            /\ \A k \in 1..(Len(chunks) - 1) :
                  Overlap(words, chunks[k], chunks[k + 1]) >= ChunkOverlap

\* The request the main worker is serving.
Current == req[MainWorker]

\* C23: index_document calls delete_document before anything else, whether
\* or not the document exists and whatever the content; entries are
\* inserted only after that deletion has removed what it found; and a
\* stored entry stays as it was written for as long as its id is stored.
C23_DeleteFirstNeverInPlace ==
    [][/\ \A e \in collection : e.id \in Ids(collection') => e \in collection'
       /\ (collection' \ collection # {}) =>
             /\ pc[MainWorker] = "add"
             /\ Current.calls[1] = "get"
             /\ "add" \notin Range(Current.calls)
             /\ Current.existing \cap Ids(collection) = {}
             /\ Current.existing # {} => Current.calls[2] = "delete"
       /\ (resp' # resp /\ Last'.op = "index" /\ Last'.status \in {"ok", "error"}) =>
             Last'.calls[1] = "get"]_vars

\* C23 witness: an index request replaced a document: the entries found
\* were deleted before the new ones were inserted.
C23_Witness ==
    /\ Last.op = "index"
    /\ Last.status = "ok"
    /\ Last.calls = <<"get", "delete", "embed", "add">>
    /\ collection # {}

\* C24: the sources of a query response are the search results in their
\* order, nearest first, the i-th source built from the i-th result, and
\* the context is their chunk texts in that order with the delimiter
\* between every two of them.
C24_SourcesInRankOrder ==
    (Last.op = "query" /\ Last.sources # <<>>) =>
        LET sources == Last.sources
            results == Last.results
            n == Len(sources)
        IN  /\ n = Len(results)
            /\ \A i \in 1..n :
                  /\ sources[i].chunk_text = results[i].document
                  /\ sources[i].metadata = results[i].metadata
                  /\ sources[i].relevance_score = Relevance(results[i].distance)
            /\ \A i, j \in 1..n :
                  i < j => /\ results[i].distance <= results[j].distance
                           /\ sources[i].relevance_score >=
                                  sources[j].relevance_score
            /\ Len(Last.context) = 2 * n - 1
            /\ \A i \in 1..n : Last.context[2 * i - 1] = sources[i].chunk_text
            /\ \A i \in 1..(n - 1) : Last.context[2 * i] = Delimiter

\* C24 witness: a response with two sources at different distances.
C24_Witness ==
    /\ Last.op = "query"
    /\ Len(Last.sources) >= 2
    /\ Last.results[1].distance < Last.results[2].distance

\* C25: document_ids_searched lists, each once, the document_id values of
\* the response's sources and nothing else.
C25_SearchedAreSourceDocuments ==
    Last.op = "query" =>
        LET searched == Last.document_ids_searched
        IN  /\ Range(searched) =
                  {Last.sources[i].document_id : i \in 1..Len(Last.sources)}
            /\ \A i, j \in 1..Len(searched) : i # j => searched[i] # searched[j]
            /\ searched = <<>> <=> Last.sources = <<>>

\* C25 witness: more sources than documents, and more than one document.
C25_Witness ==
    /\ Last.op = "query"
    /\ Len(Last.document_ids_searched) = 2
    /\ Len(Last.sources) = 3

Count(seq, x) == Cardinality({i \in 1..Len(seq) : seq[i] = x})

\* The most embedding calls an operation issues: one per chunk, or the
\* question's.
EmbedLimit(response) ==
    IF response.op = "index" THEN Len(split_text(response.content)) ELSE 1

\* C26: within one index, delete or query execution every remote call is
\* issued at most once (the embedding once per chunk), and a failed call
\* is the last call of its operation, which ends with that failure.
C26_NoRetry ==
    /\ Current.op \in {"index", "delete"} =>
          /\ \A call \in {"get", "delete", "add"} : Count(Current.calls, call) <= 1
          /\ Current.op = "index" =>
                Count(Current.calls, "embed") = Len(Current.embeddings)
    /\ Last.op \in {"index", "delete", "query"} =>
          /\ \A call \in {"get", "delete", "add", "search", "chat"} :
                Count(Last.calls, call) <= 1
          /\ Count(Last.calls, "embed") <= EmbedLimit(Last)
          /\ Last.failed # "none" =>
                /\ Last.status = "error"
                /\ Last.calls # <<>>
                /\ Last.calls[Len(Last.calls)] = Last.failed
                /\ Count(Last.calls, Last.failed) =
                      (IF Last.failed = "embed" /\ Last.op = "index"
                       THEN Count(Last.calls, "embed")
                       ELSE 1)
                /\ pc[MainWorker] = "idle"

\* C26 witness: the embedding of the second chunk failed; the request
\* ended there, after one call for each of the two chunks.
C26_Witness ==
    /\ Last.op = "index"
    /\ Last.failed = "embed"
    /\ Count(Last.calls, "embed") = 2
    /\ pc[MainWorker] = "idle"

\* C27: a query embeds the question, then searches, then generates, the
\* generation only when the search returned a result; sources are returned
\* only when the generation has succeeded.
C27_QueryStepOrder ==
    (Last.op = "query" /\ Last.status \in {"ok", "error"}) =>
        /\ Last.calls \in
              {<<"embed">>, <<"embed", "search">>, <<"embed", "search", "chat">>}
        /\ Last.calls = <<"embed">> => Last.failed = "embed"
        /\ Last.calls = <<"embed", "search">> =>
              \/ Last.failed = "search"
              \/ Last.failed = "none" /\ Last.results = <<>>
        /\ Last.calls = <<"embed", "search", "chat">> => Last.results # <<>>
        /\ Last.sources # <<>> =>
              /\ Last.calls = <<"embed", "search", "chat">>
              /\ Last.failed = "none"
              /\ Last.status = "ok"

\* C27 witness: a query answered from one source, after the three calls.
C27_Witness ==
    /\ Last.op = "query"
    /\ Last.status = "ok"
    /\ Len(Last.sources) = 1
    /\ Last.calls = <<"embed", "search", "chat">>

\* C28: without document_ids, or with an empty list, the search goes over
\* the whole collection; with a non-empty list over the entries of the
\* listed documents; and the filter built for a one-element list selects
\* what the membership filter on that list selects.
C28_FilterOnlyWhenNonEmpty ==
    /\ \A ids \in DocumentIdLists :
          Matching(collection, WhereFilter(ids)) = Selected(collection, ids)
    /\ \A d \in DocumentIds :
          Matching(collection, WhereFilter(Some(<<d>>))) =
              Matching(collection, Some([op |-> "$in", ids |-> <<d>>]))
    /\ (Last.op = "query" /\ Last.status = "ok") =>
          LET selected == Selected(collection, Last.document_ids)
          IN  /\ {Last.results[i].id : i \in 1..Len(Last.results)} \subseteq
                    Ids(selected)
              /\ Len(Last.results) = Min(Last.top_k, Cardinality(selected))

\* C28 witness: a query with an empty document_ids list found sources in
\* a collection that holds two documents.
C28_Witness ==
    /\ Last.op = "query"
    /\ Last.document_ids = Some(<<>>)
    /\ Len(Last.sources) >= 2
    /\ \A d \in DocumentIds : EntriesOf(collection, d) # {}

\* The request of a response passes the validation of its model.
ValidRequest(response) ==
    CASE response.op = "index" -> ValidIndexRequest(response.content)
      [] response.op = "query" ->
             ValidQueryRequest(response.question, response.top_k)
      [] OTHER -> TRUE

\* C29 as stated: before init_router every index, query, delete and list
\* request is answered with the 503.
C29_NotReadyAnswers503 ==
    (pc[MainWorker] = "start" /\ Last.op \in {"index", "query", "delete", "list"}) =>
        /\ Last.status = "unavailable"
        /\ StatusCode(Last) = 503

\* C29: before init_router a request that passes validation is answered
\* with the 503 and its not-initialized detail, an invalid one with the
\* 422, both without a remote call or a change of the collection, and
\* health reports "unhealthy"; once init_router has run it stays run and
\* no request is answered with the 503 or with "unhealthy".
C29_NotReadyUntilInit ==
    [][/\ (pc[MainWorker] = "start" /\ resp' # resp) =>
             /\ collection' = collection
             /\ pc'[MainWorker] = "start"
             /\ Last'.op \in {"index", "query", "delete"} => Last'.calls = <<>>
             /\ Last'.op \in {"index", "query", "delete", "list"} =>
                   IF ValidRequest(Last')
                   THEN /\ Last'.status = "unavailable"
                        /\ StatusCode(Last') = 503
                        /\ Last'.detail = Some(NotInitializedDetail(Last'.op))
                   ELSE StatusCode(Last') = 422
             /\ Last'.op = "health" => Last'.status = "unhealthy"
       /\ pc[MainWorker] # "start" =>
             /\ pc'[MainWorker] # "start"
             /\ (resp' # resp /\ Last'.op # "none") =>
                   Last'.status \notin {"unavailable", "unhealthy"}]_vars

\* C29 witness: a valid query received before init_router was answered
\* with the 503.
C29_Witness ==
    /\ pc[MainWorker] = "start"
    /\ Last.op = "query"
    /\ ValidRequest(Last)
    /\ StatusCode(Last) = 503

\* C30: a query, a listing of the documents or a health check leaves the
\* collection as it was, whether it is answered or fails.
C30_ReadsChangeNothing ==
    [][(resp' # resp /\ Last'.op \in {"query", "list", "health"}) =>
           collection' = collection]_vars

\* C30 witness: a query failed at the generation over a collection that
\* holds entries.
C30_Witness ==
    /\ Last.op = "query"
    /\ Last.failed = "chat"
    /\ collection # {}

====
